---- MODULE Spec2Model ----
(***************************************************************************)
(* Model of the chunked inference pipeline (moosez/predict.py) and of the  *)
(* multi-model label merge (moosez/utility/combine_multi_model_labels.py). *)
(*                                                                         *)
(* Arrays are records [shape, data]: shape is a sequence of axis lengths,  *)
(* data a function from 0-based coordinate tuples to voxel values.         *)
(***************************************************************************)
EXTENDS Integers, Sequences, FiniteSets, TLC

\* ------------------------------------------------------------------ bounds
\* Longest spatial axis of the volumes of the reconstruction specification.
MaxAxis == 5
\* Longest spatial axis of the volumes of the task-graph specification.
PipeMaxAxis == 2
\* Number of segmentation models that can be merged.
NModels == 3
\* Longest list of identifiers handed to construct_prediction_routine.
MaxRequests == 3

VARIABLES
    image_array,       \* the caller's volume (spatial axes only)
    sizer,             \* ImageResampler.chunk_along_axis, as a table length -> count
    pc,                \* position inside predict_from_array_by_iterator
    prediction_array,  \* the dask array: [shape, chunks]
    chunk_locations,   \* chunk_indices returned by the preprocessing iterator
    delayed_tasks,     \* state of every process_case task
    results,           \* what dask.compute gathers, one slot per task
    consumed,          \* how many items the inference engine took from the iterator
    segmentations,     \* the engine's output list
    returned,          \* the value returned to the caller
    error,             \* the exception that left the function
    out_of_order,      \* history: some task finished before an earlier-submitted one
    \* create_multi_model_label_segmentation
    model_identifiers,            \* the ordered list of models to merge
    mpc,                          \* position inside the function
    combined_segmentation_image,  \* the accumulator volume: voxel -> label
    combined_segmentation_dict,   \* the accumulator OrganIndexMap: index -> organ
    merged,                       \* how many models of the list are folded in
    read_images,                  \* history: the volumes read so far, in list order
    merge_error,                  \* the exception that left the function
    missing,                      \* history: the model whose file was absent
    written,                      \* the files written at the end
    \* construct_prediction_routine
    models,                       \* the argument: one identifier or a list
    rpc,                          \* position inside the function
    handled,                      \* how many list entries the loop has handled
    prediction_routine            \* the dict: spacing -> list of identifiers

pipe_vars == <<image_array, sizer, pc, prediction_array, chunk_locations, delayed_tasks,
               results, consumed, segmentations, returned, error, out_of_order>>

merge_vars == <<model_identifiers, mpc, combined_segmentation_image,
                combined_segmentation_dict, merged, read_images, merge_error, missing,
                written>>

routine_vars == <<models, rpc, handled, prediction_routine>>

vars == <<pipe_vars, merge_vars, routine_vars>>

\* ------------------------------------------------------------- array helpers
\* Python's None where an array is expected, and an empty result slot.
None == [shape |-> <<>>, data |-> <<>>]

NoItem == [data |-> None, location |-> <<>>]

SeqMax(s) == IF Len(s) = 0 THEN 0 ELSE CHOOSE m \in {s[i] : i \in 1..Len(s)} :
                                           \A i \in 1..Len(s) : s[i] <= m

SeqSum(s, n) == LET RECURSIVE Go(_)
                    Go(k) == IF k = 0 THEN 0 ELSE s[k] + Go(k - 1)
                IN Go(n)

\* All 0-based coordinates of an array of this shape.
Coords(shape) == {c \in [1..Len(shape) -> 0..(SeqMax(shape) - 1)] :
                      \A i \in 1..Len(shape) : c[i] < shape[i]}

\* np.ndindex(shape): every index of the grid, last axis fastest.
RECURSIVE NdIndex(_)
NdIndex(shape) ==
    IF Len(shape) = 0 THEN << <<>> >>
    ELSE LET rest == NdIndex(Tail(shape))
             n == Len(rest)
         IN [k \in 1..(Head(shape) * n) |->
                 <<(k - 1) \div n>> \o rest[((k - 1) % n) + 1]]

\* image_array[None, ...]: a new leading axis of length one.
AddLeadingAxis(a) ==
    [shape |-> <<1>> \o a.shape,
     data |-> [c \in Coords(<<1>> \o a.shape) |-> a.data[Tail(c)]]]

\* np.squeeze: every axis of length one is removed, wherever it is.
Squeeze(a) ==
    LET n == Len(a.shape)
        keep == SelectSeq([i \in 1..n |-> i], LAMBDA i : a.shape[i] # 1)
        newShape == [j \in 1..Len(keep) |-> a.shape[keep[j]]]
        Old(c) == [i \in 1..n |->
                      IF \E j \in 1..Len(keep) : keep[j] = i
                      THEN c[CHOOSE j \in 1..Len(keep) : keep[j] = i]
                      ELSE 0]
    IN [shape |-> newShape, data |-> [c \in Coords(newShape) |-> a.data[Old(c)]]]

\* ------------------------------------------------------------- partitioning
\* The counts ImageResampler.chunk_along_axis may return for an axis length.
chunk_along_axis(axis) == IF axis = 0 THEN {0, 1} ELSE 0..axis

\* The lengths chunk_along_axis is asked about for a volume of this shape.
AxisLengths(shape) == {1} \cup {shape[i] : i \in 1..Len(shape)}

Sizers(shape) == {f \in [AxisLengths(shape) -> 0..SeqMax(<<1>> \o shape)] :
                      \A a \in AxisLengths(shape) : f[a] \in chunk_along_axis(a)}

\* axis / chunk_along_axis(axis): Python's true division, kept as a fraction.
ChunkExtent(axis, count) == [num |-> axis, den |-> count]

\* dask.utils.is_integer on the extent, a float: whether it is a whole number.
IsInteger(extent) == extent.num % extent.den = 0

\* dask's blockdims_from_blockshape for one axis: the extent is truncated by
\* int(), the axis is cut into blocks of that size and a shorter last block
\* takes the remainder; an axis of length zero is one block of size zero.
BlockDims(d, extent) ==
    LET bd == extent.num \div extent.den
    IN IF d = 0 THEN <<0>>
       ELSE [i \in 1..(d \div bd) |-> bd] \o (IF d % bd # 0 THEN <<d % bd>> ELSE <<>>)

\* da.from_array(image_array, chunks=chunks)
FromArray(a, counts) ==
    [shape |-> a.shape,
     data |-> a.data,
     chunks |-> [i \in 1..Len(a.shape) |->
                    BlockDims(a.shape[i], ChunkExtent(a.shape[i], counts[i]))]]

\* dask_array.to_delayed().shape: the number of blocks along each axis.
GridShape(darr) == [i \in 1..Len(darr.chunks) |-> Len(darr.chunks[i])]

\* The block of the array at a grid index.
Block(a, darr, index) ==
    LET n == Len(index)
        size == [i \in 1..n |-> darr.chunks[i][index[i] + 1]]
        start == [i \in 1..n |-> SeqSum(darr.chunks[i], index[i])]
    IN [shape |-> size,
        data |-> [c \in Coords(size) |-> a.data[[i \in 1..n |-> start[i] + c[i]]]]]

\* ------------------------------------------------------------ preprocessing
\* process_case: the preprocessed chunk together with its grid location.
process_case(chunk, location) == [data |-> chunk, location |-> location]

\* One segmentation of predictor.predict_from_data_iterator: the labels of the
\* item's voxels, without the channel axis; src records the item it came from.
Segment(item) ==
    [shape |-> Tail(item.data.shape),
     data |-> [c \in Coords(Tail(item.data.shape)) |-> item.data.data[<<0>> \o c]],
     src |-> item.location]

\* A gather that fills the slots in the order in which the tasks finish.
GatherInCompletionOrder(res, i, item) ==
    LET free == {k \in 1..Len(res) : res[k] = NoItem}
        first == CHOOSE k \in free : \A j \in free : k <= j
    IN [res EXCEPT ![first] = item]

\* dask.compute(*delayed_tasks): the result of task i is the i-th result,
\* whenever the task finishes.
Gather(res, i, item) == [res EXCEPT ![i] = item]

\* A compute that returns once no task is pending, failed or not.
ComputeIgnoringFailures(tasks) ==
    IF \A i \in 1..Len(tasks) : tasks[i] # "pending" THEN "return" ELSE "wait"

\* A compute that returns as soon as one task has finished.
ComputeWithoutBarrier(tasks) ==
    IF \E i \in 1..Len(tasks) : tasks[i] = "failed" THEN "raise"
    ELSE IF \E i \in 1..Len(tasks) : tasks[i] = "done" THEN "return"
    ELSE "wait"

\* dask.compute blocks: it raises once a task has failed, returns once every
\* task has finished, and waits otherwise.
Compute(tasks) ==
    IF \E i \in 1..Len(tasks) : tasks[i] = "failed" THEN "raise"
    ELSE IF \A i \in 1..Len(tasks) : tasks[i] = "done" THEN "return"
    ELSE "wait"

\* ------------------------------------------------------------ reconstruction
\* The destination slices of one chunk: slice(pos * csize, pos * csize + csize)
\* on every axis, csize the size of this chunk (with its new leading axis).
SliceStart(chunk, position) ==
    LET cshape == <<1>> \o chunk.shape
    IN [i \in 1..Len(cshape) |-> position[i] * cshape[i]]

InSlices(c, chunk, position) ==
    LET cshape == <<1>> \o chunk.shape
        start == SliceStart(chunk, position)
    IN \A i \in 1..Len(cshape) : start[i] <= c[i] /\ c[i] < start[i] + cshape[i]

\* reconstructed_array[slices] = chunk needs the slices to lie inside the array.
Fits(chunk, position, shape) ==
    LET cshape == <<1>> \o chunk.shape
        start == SliceStart(chunk, position)
    IN /\ Len(position) = Len(shape)
       /\ \A i \in 1..Len(shape) : start[i] + cshape[i] <= shape[i]

Place(data, chunk, position) ==
    LET start == SliceStart(chunk, position)
    IN [c \in DOMAIN data |->
           IF InSlices(c, chunk, position)
           THEN chunk.data[Tail([i \in 1..Len(c) |-> c[i] - start[i]])]
           ELSE data[c]]

Min(a, b) == IF a < b THEN a ELSE b

\* The cells of the output that no chunk is written to.
Unwritten(chunks, positions, shape) ==
    {c \in Coords(shape) :
        \A k \in 1..Min(Len(chunks), Len(positions)) : ~InSlices(c, chunks[k], positions[k])}

\* np.empty(original_shape): the cells hold whatever the memory held. Only the
\* cells that are never written reach the result: each holds 0 or, by chance,
\* the value of the source volume.
Empty(shape, unwritten, source) ==
    {[c \in Coords(shape) |-> IF c \in g THEN source.data[c] ELSE 0] : g \in SUBSET unwritten}

reconstruct_array_from_chunks(chunks, chunk_positions, original_shape, empty) ==
    LET n == Min(Len(chunks), Len(chunk_positions))
        RECURSIVE Loop(_)
        Loop(k) == IF k = 0 THEN empty
                   ELSE Place(Loop(k - 1), chunks[k], chunk_positions[k])
    IN Squeeze([shape |-> original_shape, data |-> Loop(n)])

\* The variables of a function that is not running.
PipeIdle ==
    /\ image_array = None
    /\ sizer = <<>>
    /\ pc = "idle"
    /\ prediction_array = None
    /\ chunk_locations = <<>>
    /\ delayed_tasks = <<>>
    /\ results = <<>>
    /\ consumed = 0
    /\ segmentations = <<>>
    /\ returned = None
    /\ error = "none"
    /\ out_of_order = FALSE

MergeIdle ==
    /\ model_identifiers = <<>>
    /\ mpc = "idle"
    /\ combined_segmentation_image = <<>>
    /\ combined_segmentation_dict = <<>>
    /\ merged = 0
    /\ read_images = <<>>
    /\ merge_error = [kind |-> "none", model |-> 0]
    /\ missing = 0
    /\ written = <<>>

RoutineIdle ==
    /\ models = <<>>
    /\ rpc = "idle"
    /\ handled = 0
    /\ prediction_routine = <<>>

\* ------------------------------------------------------------------ volumes
\* A volume whose voxels all differ: the voxel at c holds its row-major rank + 1.
Volume(shape) ==
    LET RECURSIVE Rank(_, _)
        Rank(c, k) == IF k = 0 THEN 0 ELSE Rank(c, k - 1) * shape[k] + c[k]
    IN [shape |-> shape, data |-> [c \in Coords(shape) |-> Rank(c, Len(shape)) + 1]]

\* ------------------------------------------- predict_from_array_by_iterator
\* The state at the call: a volume of one of the shapes, and a chunk sizer whose
\* counts are at least min_count.
PipeStart(shapes, min_count) ==
    /\ MergeIdle
    /\ RoutineIdle
    /\ \E shape \in shapes :
          /\ image_array = Volume(shape)
          /\ sizer \in {f \in Sizers(shape) : \A a \in DOMAIN f : f[a] >= min_count}
    /\ pc = "start"
    /\ prediction_array = None
    /\ chunk_locations = <<>>
    /\ delayed_tasks = <<>>
    /\ results = <<>>
    /\ consumed = 0
    /\ segmentations = <<>>
    /\ returned = None
    /\ error = "none"
    /\ out_of_order = FALSE

\* image_array[None, ...], the chunk extents and da.from_array. A chunk count
\* of zero makes the division raise. An extent that is no whole number is
\* refused by the dask releases that check is_integer (ValueError) and
\* truncated by the others; which release is installed is not fixed.
Partition ==
    /\ pc = "start"
    /\ LET a == AddLeadingAxis(image_array)
           counts == [i \in 1..Len(a.shape) |-> sizer[a.shape[i]]]
       IN IF \E i \in 1..Len(counts) : counts[i] = 0
          THEN /\ pc' = "raised"
               /\ error' = "ZeroDivisionError"
               /\ UNCHANGED prediction_array
          ELSE \E checks_integers \in BOOLEAN :
                  IF /\ checks_integers
                     /\ \E i \in 1..Len(counts) :
                            ~IsInteger(ChunkExtent(a.shape[i], counts[i]))
                  THEN /\ pc' = "raised"
                       /\ error' = "ValueError"
                       /\ UNCHANGED prediction_array
                  ELSE /\ pc' = "partitioned"
                       /\ prediction_array' = FromArray(a, counts)
                       /\ UNCHANGED error
    /\ UNCHANGED <<image_array, sizer, chunk_locations, delayed_tasks, results, consumed,
                   segmentations, returned, out_of_order>>
    /\ UNCHANGED <<merge_vars, routine_vars>>

\* preprocessing_iterator_from_dask_array up to the call of dask.compute: one
\* process_case task per grid index, in np.ndindex order.
BuildTasks ==
    /\ pc = "partitioned"
    /\ chunk_locations' = NdIndex(GridShape(prediction_array))
    /\ delayed_tasks' = [k \in 1..Len(chunk_locations') |-> "pending"]
    /\ results' = [k \in 1..Len(chunk_locations') |-> NoItem]
    /\ pc' = "computing"
    /\ UNCHANGED <<image_array, sizer, prediction_array, consumed, segmentations, returned,
                   error, out_of_order>>
    /\ UNCHANGED <<merge_vars, routine_vars>>

\* One process_case task finishes; the tasks finish in any order.
TaskDone(i) ==
    /\ pc = "computing"
    /\ delayed_tasks[i] = "pending"
    /\ delayed_tasks' = [delayed_tasks EXCEPT ![i] = "done"]
    /\ results' = Gather(results, i,
                         process_case(Block(prediction_array, prediction_array,
                                            chunk_locations[i]),
                                      chunk_locations[i]))
    /\ out_of_order' = (out_of_order \/ \E j \in 1..(i - 1) : delayed_tasks[j] = "pending")
    /\ UNCHANGED <<image_array, sizer, pc, prediction_array, chunk_locations, consumed,
                   segmentations, returned, error>>
    /\ UNCHANGED <<merge_vars, routine_vars>>

\* One process_case task raises.
TaskFail(i) ==
    /\ pc = "computing"
    /\ delayed_tasks[i] = "pending"
    /\ delayed_tasks' = [delayed_tasks EXCEPT ![i] = "failed"]
    /\ UNCHANGED <<image_array, sizer, pc, prediction_array, chunk_locations, results,
                   consumed, segmentations, returned, error, out_of_order>>
    /\ UNCHANGED <<merge_vars, routine_vars>>

\* dask.compute returns the results; iter(results) goes to the engine.
ComputeReturn ==
    /\ pc = "computing"
    /\ Compute(delayed_tasks) = "return"
    /\ pc' = "predict"
    /\ UNCHANGED <<image_array, sizer, prediction_array, chunk_locations, delayed_tasks,
                   results, consumed, segmentations, returned, error, out_of_order>>
    /\ UNCHANGED <<merge_vars, routine_vars>>

\* dask.compute raises: results is never bound, the exception passes the
\* finally clause and leaves predict_from_array_by_iterator.
ComputeRaise ==
    /\ pc = "computing"
    /\ Compute(delayed_tasks) = "raise"
    /\ pc' = "raised"
    /\ error' = "ChunkTaskFailure"
    /\ results' = <<>>
    /\ UNCHANGED <<image_array, sizer, prediction_array, chunk_locations, delayed_tasks,
                   consumed, segmentations, returned, out_of_order>>
    /\ UNCHANGED <<merge_vars, routine_vars>>

\* predictor.predict_from_data_iterator takes the next item of the iterator and
\* appends its segmentation; after the last item it returns the list.
PredictStep ==
    /\ pc = "predict"
    /\ consumed < Len(results)
    /\ consumed' = consumed + 1
    /\ segmentations' = Append(segmentations, Segment(results[consumed + 1]))
    /\ pc' = IF consumed + 1 = Len(results) THEN "reconstruct" ELSE "predict"
    /\ UNCHANGED <<image_array, sizer, prediction_array, chunk_locations, delayed_tasks,
                   results, returned, error, out_of_order>>
    /\ UNCHANGED <<merge_vars, routine_vars>>

\* reconstruct_array_from_chunks(segmentations, chunk_locations, shape) and return.
Reconstruct ==
    /\ pc = "reconstruct"
    /\ LET n == Min(Len(segmentations), Len(chunk_locations))
           shape == prediction_array.shape
       IN IF \A k \in 1..n : Fits(segmentations[k], chunk_locations[k], shape)
          THEN /\ \E empty \in Empty(shape,
                                     Unwritten(segmentations, chunk_locations, shape),
                                     prediction_array) :
                    returned' = reconstruct_array_from_chunks(segmentations, chunk_locations,
                                                              shape, empty)
               /\ pc' = "done"
               /\ UNCHANGED error
          ELSE /\ pc' = "raised"
               /\ error' = "ValueError"
               /\ UNCHANGED returned
    /\ UNCHANGED <<image_array, sizer, prediction_array, chunk_locations, delayed_tasks,
                   results, consumed, segmentations, out_of_order>>
    /\ UNCHANGED <<merge_vars, routine_vars>>

\* The chunks of the partition, handed on unchanged (without the leading axis)
\* in grid order.
UnchangedChunks ==
    /\ pc = "partitioned"
    /\ chunk_locations' = NdIndex(GridShape(prediction_array))
    /\ segmentations' = [k \in 1..Len(chunk_locations') |->
                            Segment(process_case(Block(prediction_array, prediction_array,
                                                       chunk_locations'[k]),
                                                 chunk_locations'[k]))]
    /\ pc' = "reconstruct"
    /\ UNCHANGED <<image_array, sizer, prediction_array, delayed_tasks, results, consumed,
                   returned, error, out_of_order>>
    /\ UNCHANGED <<merge_vars, routine_vars>>

SpatialShapes(lo, hi) == {<<a, b>> : a \in lo..hi, b \in lo..hi}

InitPipe == PipeStart(SpatialShapes(0, PipeMaxAxis), 0)

NextPipe ==
    \/ Partition
    \/ BuildTasks
    \/ \E i \in 1..Len(delayed_tasks) : TaskDone(i)
    \/ \E i \in 1..Len(delayed_tasks) : TaskFail(i)
    \/ ComputeReturn
    \/ ComputeRaise
    \/ PredictStep
    \/ Reconstruct

SpecPipe == InitPipe /\ [][NextPipe]_vars

InitRecon == PipeStart(SpatialShapes(1, MaxAxis), 1)

NextRecon ==
    \/ Partition
    \/ UnchangedChunks
    \/ Reconstruct

SpecRecon == InitRecon /\ [][NextRecon]_vars

\* ---------------------------------- create_multi_model_label_segmentation
SetMax(S) == CHOOSE m \in S : \A x \in S : x <= m

\* The two voxels of Scenario B: X, where segmentations may overlap, and Y.
Voxels == {"X", "Y"}

ModelIds == 1..NModels

\* Model(identifier).organ_indices: model m labels two organs, m and m + 1, so
\* the maps of neighbouring models collide on an index and the others do not.
organ_indices(m) == [i \in {m, m + 1} |-> <<"organ", m, i>>]

\* The label volumes a model can have written: background or one of its organs.
LabelImages(m) == [Voxels -> {0} \cup DOMAIN organ_indices(m)]

\* The lists of models to merge: one to NModels identifiers, none twice.
ModelLists == UNION {{l \in [1..n -> ModelIds] : \A i, j \in 1..n : l[i] = l[j] => i = j} :
                         n \in 1..NModels}

\* file_utilities.get_files: the files of the directory with the model's
\* prefix, none when the model's segmentation is absent.
get_files(m, present) == IF present THEN <<m>> ELSE <<>>

\* image_processing.add_model_label_image: a voxel keeps the accumulator's
\* label when it has one and takes the overlay's label under its new index
\* otherwise; every overlay index moves past the accumulator's highest index.
add_model_label_image(base_image, base_dict, new_image, new_dict) ==
    LET offset == SetMax(DOMAIN base_dict)
    IN [image |-> [v \in Voxels |->
                      IF base_image[v] # 0 THEN base_image[v]
                      ELSE IF new_image[v] # 0 THEN new_image[v] + offset
                      ELSE 0],
        dict |-> [k \in DOMAIN base_dict \cup {i + offset : i \in DOMAIN new_dict} |->
                     IF k \in DOMAIN base_dict THEN base_dict[k] ELSE new_dict[k - offset]]]

\* A loop body that hands on the base model's map instead of the accumulated one.
CombineWithBaseDict(image, dict, new_image, prepared_model) ==
    add_model_label_image(image, organ_indices(model_identifiers[1]), new_image,
                          organ_indices(prepared_model))

\* A loop body with accumulator and overlay exchanged.
CombineSwapped(image, dict, new_image, prepared_model) ==
    add_model_label_image(new_image, organ_indices(prepared_model), image, dict)

\* The body of the loop: the accumulator and the next model's volume and map go
\* to add_model_label_image, whose result is the new accumulator.
Combine(image, dict, new_image, prepared_model) ==
    add_model_label_image(image, dict, new_image, organ_indices(prepared_model))

InitMerge ==
    /\ PipeIdle
    /\ RoutineIdle
    /\ model_identifiers \in ModelLists
    /\ mpc = "start"
    /\ combined_segmentation_image = <<>>
    /\ combined_segmentation_dict = <<>>
    /\ merged = 0
    /\ read_images = <<>>
    /\ merge_error = [kind |-> "none", model |-> 0]
    /\ missing = 0
    /\ written = <<>>

\* The base model: its file is looked up with get_files(...)[0] and read, its
\* map is the first accumulator map. An empty list makes the [0] raise.
ReadBase ==
    /\ mpc = "start"
    /\ \E present \in BOOLEAN :
          LET m == model_identifiers[1]
              files == get_files(m, present)
          IN IF Len(files) = 0
             THEN /\ mpc' = "raised"
                  /\ merge_error' = [kind |-> "IndexError", model |-> 0]
                  /\ missing' = m
                  /\ UNCHANGED <<combined_segmentation_image, combined_segmentation_dict,
                                 merged, read_images>>
             ELSE /\ \E image \in LabelImages(files[1]) :
                       /\ combined_segmentation_image' = image
                       /\ read_images' = <<image>>
                  /\ combined_segmentation_dict' = organ_indices(m)
                  /\ merged' = 1
                  /\ mpc' = "loop"
                  /\ UNCHANGED <<merge_error, missing>>
    /\ UNCHANGED <<model_identifiers, written>>
    /\ UNCHANGED <<pipe_vars, routine_vars>>

\* One pass of the loop over prepared_models[1:].
CombineNext ==
    /\ mpc = "loop"
    /\ merged < Len(model_identifiers)
    /\ \E present \in BOOLEAN :
          LET m == model_identifiers[merged + 1]
              files == get_files(m, present)
          IN IF Len(files) = 0
             THEN /\ mpc' = "raised"
                  /\ merge_error' = [kind |-> "IndexError", model |-> 0]
                  /\ missing' = m
                  /\ UNCHANGED <<combined_segmentation_image, combined_segmentation_dict,
                                 merged, read_images>>
             ELSE /\ \E image \in LabelImages(files[1]) :
                       LET new == Combine(combined_segmentation_image,
                                          combined_segmentation_dict, image, m)
                       IN /\ combined_segmentation_image' = new.image
                          /\ combined_segmentation_dict' = new.dict
                          /\ read_images' = Append(read_images, image)
                  /\ merged' = merged + 1
                  /\ UNCHANGED <<mpc, merge_error, missing>>
    /\ UNCHANGED <<model_identifiers, written>>
    /\ UNCHANGED <<pipe_vars, routine_vars>>

\* After the loop: the combined volume and its map are written and returned.
WriteCombined ==
    /\ mpc = "loop"
    /\ merged = Len(model_identifiers)
    /\ written' = <<combined_segmentation_image, combined_segmentation_dict>>
    /\ mpc' = "done"
    /\ UNCHANGED <<model_identifiers, combined_segmentation_image,
                   combined_segmentation_dict, merged, read_images, merge_error, missing>>
    /\ UNCHANGED <<pipe_vars, routine_vars>>

NextMerge ==
    \/ ReadBase
    \/ CombineNext
    \/ WriteCombined

SpecMerge == InitMerge /\ [][NextMerge]_vars

\* ------------------------------------------- construct_prediction_routine
\* resources.MODELS: the registry, identifier -> voxel spacing. Two models
\* share one spacing and a third has its own.
MODELS ==
    [m \in {"valid_a", "valid_b", "valid_c"} |->
        [voxel_spacing |-> IF m = "valid_c" THEN <<3, 3, 3>> ELSE <<2, 2, 2>>]]

AVAILABLE_MODELS == DOMAIN MODELS

\* The identifiers a caller may ask for; unknown_x is in no registry.
Identifiers == AVAILABLE_MODELS \cup {"unknown_x"}

\* The argument: one identifier, or a list of at most MaxRequests of them.
Requests ==
    {[is_str |-> TRUE, value |-> m] : m \in Identifiers}
        \cup {[is_str |-> FALSE, value |-> l] :
                 l \in UNION {[1..n -> Identifiers] : n \in 0..MaxRequests}}

\* The dict after one pass of the loop: an available model is appended to the
\* list of its spacing, or starts that list; any other identifier is skipped.
AddModel(routine, model) ==
    IF model \in AVAILABLE_MODELS
    THEN LET model_spacing == MODELS[model].voxel_spacing
         IN IF model_spacing \in DOMAIN routine
            THEN [routine EXCEPT ![model_spacing] = Append(@, model)]
            ELSE [s \in DOMAIN routine \cup {model_spacing} |->
                     IF s = model_spacing THEN <<model>> ELSE routine[s]]
    ELSE routine

InitRoutine ==
    /\ PipeIdle
    /\ MergeIdle
    /\ models \in Requests
    /\ rpc = "start"
    /\ handled = 0
    /\ prediction_routine = <<>>

\* if isinstance(models, str): models = [models]; prediction_routine = {}
WrapArgument ==
    /\ rpc = "start"
    /\ models' = IF models.is_str THEN [is_str |-> FALSE, value |-> <<models.value>>]
                 ELSE models
    /\ rpc' = "loop"
    /\ UNCHANGED <<handled, prediction_routine>>
    /\ UNCHANGED <<pipe_vars, merge_vars>>

\* One pass of the loop over models.
HandleModel ==
    /\ rpc = "loop"
    /\ handled < Len(models.value)
    /\ prediction_routine' = AddModel(prediction_routine, models.value[handled + 1])
    /\ handled' = handled + 1
    /\ UNCHANGED <<models, rpc>>
    /\ UNCHANGED <<pipe_vars, merge_vars>>

\* return prediction_routine
ReturnRoutine ==
    /\ rpc = "loop"
    /\ handled = Len(models.value)
    /\ rpc' = "done"
    /\ UNCHANGED <<models, handled, prediction_routine>>
    /\ UNCHANGED <<pipe_vars, merge_vars>>

NextRoutine ==
    \/ WrapArgument
    \/ HandleModel
    \/ ReturnRoutine

SpecRoutine == InitRoutine /\ [][NextRoutine]_vars

\* ---------------------------------------------------- properties: pipeline
\* The chunk the partition holds at a grid location, as the engine returns it.
ChunkAt(location) ==
    Segment(process_case(Block(prediction_array, prediction_array, location), location))

\* The voxels of an array in row-major order, whatever its shape.
Ravel(a) == [k \in 1..Len(NdIndex(a.shape)) |-> a.data[NdIndex(a.shape)[k]]]

\* C1: for every volume and every valid chunk count per axis, reconstructing
\* the unchanged chunks of the partition gives back the volume voxel by voxel,
\* also when an axis is not evenly divisible by its chunk count.
C1_RoundTripIdentity ==
    pc = "done" => Ravel(returned) = Ravel(image_array)

\* C10: the returned array has the shape of the volume: only the leading axis
\* that was added for the batch is removed.
C10_OnlyLeadingAxisRemoved ==
    pc = "done" => returned.shape = image_array.shape

\* C5: whatever the order in which the tasks finish, the i-th result handed to
\* the engine carries location chunk_indices[i], and the i-th segmentation, the
\* one placed at chunk_locations[i], is computed from the chunk at that location.
C5_CoordinatePairing ==
    /\ pc \in {"predict", "reconstruct", "done"} =>
           /\ Len(results) = Len(chunk_locations)
           /\ \A i \in 1..Len(results) : results[i].location = chunk_locations[i]
    /\ \A i \in 1..Len(segmentations) :
           /\ i <= Len(chunk_locations)
           /\ segmentations[i] = ChunkAt(chunk_locations[i])

C5_Witness ==
    /\ pc = "done"
    /\ out_of_order
    /\ Len(segmentations) >= 2
    /\ \E i, j \in 1..Len(segmentations) : segmentations[i].data # segmentations[j].data

\* C6: a task is issued for every chunk of the grid, and no result is handed
\* to the engine, nor consumed by it, while a task has not finished.
C6_FullBarrier ==
    /\ pc = "computing" =>
           /\ Len(delayed_tasks) = Len(chunk_locations)
           /\ \A index \in Coords(GridShape(prediction_array)) :
                  Cardinality({k \in 1..Len(chunk_locations) : chunk_locations[k] = index}) = 1
    /\ (consumed > 0 \/ pc \in {"predict", "reconstruct", "done"}) =>
           \A i \in 1..Len(delayed_tasks) : delayed_tasks[i] = "done"

C6_Witness ==
    /\ pc = "predict"
    /\ consumed = 1
    /\ Len(delayed_tasks) >= 2
    /\ out_of_order

\* After a task's failure: no inference, no return value, the failure raised.
C7_FailFastState ==
    (\E i \in 1..Len(delayed_tasks) : delayed_tasks[i] = "failed") =>
        /\ pc \in {"computing", "raised"}
        /\ consumed = 0
        /\ segmentations = <<>>
        /\ returned = None
        /\ pc = "raised" => (error = "ChunkTaskFailure" /\ results = <<>>)

\* A task that has ended keeps its outcome: it is not run again.
C7_NoRetry ==
    \A i \in 1..Len(delayed_tasks) :
        delayed_tasks[i] # "pending" =>
            (i <= Len(delayed_tasks') /\ delayed_tasks'[i] = delayed_tasks[i])

\* C7: once a task has failed the engine is never invoked and nothing is
\* returned; the function ends with the task's failure, the results of the
\* finished tasks are dropped, and a task that has ended is never run again.
C7_FailFast == []C7_FailFastState /\ [][C7_NoRetry]_vars

C7_Witness ==
    /\ pc = "raised"
    /\ error = "ChunkTaskFailure"
    /\ \E i \in 1..Len(delayed_tasks) : delayed_tasks[i] = "done"
    /\ \E i \in 1..Len(delayed_tasks) : delayed_tasks[i] = "pending"

\* An axis of length zero, or a chunk count of zero for an axis.
InvalidPartition ==
    \E a \in DOMAIN sizer : sizer[a] <= 0 \/ a = 0

\* C8: with an axis of length zero or a chunk count of zero the function ends
\* in an error, and no preprocessing task is ever dispatched.
C8_InvalidPartitionFailsFirst ==
    InvalidPartition => (pc \in {"start", "partitioned", "raised"} /\ delayed_tasks = <<>>)

\* ------------------------------------------------------- properties: merge
\* The organs of the models folded in so far.
OrgansMerged ==
    UNION {{organ_indices(model_identifiers[k])[i] :
               i \in DOMAIN organ_indices(model_identifiers[k])} : k \in 1..merged}

RECURSIVE CountMerged(_)
CountMerged(k) ==
    IF k = 0 THEN 0
    ELSE Cardinality(DOMAIN organ_indices(model_identifiers[k])) + CountMerged(k - 1)

\* C2: after the base model and after every merge step the combined map never
\* has key 0, holds every organ of the models merged so far under an index of
\* its own, and has as many entries as those models' maps together.
C2_MergeIndexUniqueness ==
    mpc \in {"loop", "done"} =>
        /\ 0 \notin DOMAIN combined_segmentation_dict
        /\ Cardinality(DOMAIN combined_segmentation_dict) = CountMerged(merged)
        /\ {combined_segmentation_dict[i] : i \in DOMAIN combined_segmentation_dict}
               = OrgansMerged
        /\ \A i, j \in DOMAIN combined_segmentation_dict :
               combined_segmentation_dict[i] = combined_segmentation_dict[j] => i = j

C2_Witness ==
    /\ mpc = "done"
    /\ merged = 3
    /\ \E k \in 1..2 :
           DOMAIN organ_indices(model_identifiers[k])
               \cap DOMAIN organ_indices(model_identifiers[k + 1]) # {}
    /\ \E k \in 1..2 :
           DOMAIN organ_indices(model_identifiers[k])
               \cap DOMAIN organ_indices(model_identifiers[k + 1]) = {}

\* The first model of the list, among those folded in, that labels voxel v.
FirstLabelling(v) ==
    LET ks == {k \in 1..merged : read_images[k][v] # 0}
    IN IF ks = {} THEN 0 ELSE CHOOSE k \in ks : \A j \in ks : k <= j

\* Every voxel carries the organ of the first model of the list that labels it.
C3_PriorityState ==
    mpc \in {"loop", "done"} =>
        \A v \in Voxels :
            LET k == FirstLabelling(v)
            IN IF k = 0 THEN combined_segmentation_image[v] = 0
               ELSE /\ combined_segmentation_image[v] \in DOMAIN combined_segmentation_dict
                    /\ combined_segmentation_dict[combined_segmentation_image[v]]
                           = organ_indices(model_identifiers[k])[read_images[k][v]]
                    /\ k = 1 => combined_segmentation_image[v] = read_images[1][v]

\* One merge step: labelled voxels stay, the others take the overlay's label
\* under an index the accumulator's map did not have.
C3_PriorityStep ==
    (mpc = "loop" /\ merged' = merged + 1) =>
        \A v \in Voxels :
            IF combined_segmentation_image[v] # 0
            THEN combined_segmentation_image'[v] = combined_segmentation_image[v]
            ELSE LET overlay == read_images'[merged'][v]
                 IN IF overlay = 0 THEN combined_segmentation_image'[v] = 0
                    ELSE /\ combined_segmentation_image'[v]
                                \notin DOMAIN combined_segmentation_dict
                         /\ combined_segmentation_dict'[combined_segmentation_image'[v]]
                                = organ_indices(model_identifiers[merged'])[overlay]

\* C3: in a merge step a labelled voxel of the accumulator keeps its label and
\* an unlabelled one takes the overlay's label under its new index; so every
\* voxel carries the organ of the first model of the list that labels it.
C3_MergePriority == []C3_PriorityState /\ [][C3_PriorityStep]_vars

C3_Witness ==
    /\ mpc = "done"
    /\ merged >= 2
    /\ read_images[1]["X"] # 0
    /\ read_images[2]["X"] # 0
    /\ read_images[1]["Y"] = 0
    /\ read_images[2]["Y"] # 0

\* C9: when a model's segmentation file is absent the merge ends with a
\* file-not-found error that names that model.
C9_MissingFileIsExplicit ==
    mpc = "raised" => merge_error = [kind |-> "FileNotFoundError", model |-> missing]

\* ----------------------------------------------------- properties: routine
\* How often an identifier occurs in the lists of the routine, all groups together.
Occurrences(m) ==
    LET RECURSIVE Sum(_)
        Sum(S) == IF S = {} THEN 0
                  ELSE LET s == CHOOSE x \in S : TRUE
                       IN Cardinality({i \in 1..Len(prediction_routine[s]) :
                                          prediction_routine[s][i] = m})
                              + Sum(S \ {s})
    IN Sum(DOMAIN prediction_routine)

Requested == {models.value[i] : i \in 1..Len(models.value)}

\* C4: in the routine returned for any list of identifiers, also one that names
\* an identifier twice, every requested identifier of the registry occurs once,
\* in one group, and no other identifier occurs at all.
C4_RoutinePartition ==
    rpc = "done" =>
        \A m \in Identifiers :
            Occurrences(m) = IF m \in Requested \cap AVAILABLE_MODELS THEN 1 ELSE 0

====
